---- MODULE Spec2Model ----
(***************************************************************************)
(* Model of zendesk_ticket_viewer/cli_urwid.py, class TicketList: the      *)
(* prefetching ticket cache (get_tickets) and the viewport / scroll        *)
(* controller (scroll, refresh_widgets, render, keypress, _action_open).   *)
(*                                                                         *)
(* A ticket is identified by its position in the delivery order of the     *)
(* generator returned by client.tickets(): the k-th ticket is the number k.*)
(* The widget is driven by a single-threaded event loop, so every handler  *)
(* is one atomic action.  An exception escaping a handler leaves the       *)
(* fields as they were when it was raised and ends the event loop.         *)
(***************************************************************************)
EXTENDS Integers, Sequences, FiniteSets, TLC

\* ---------------------------------------------------------------- bounds
\* Largest number of tickets the generator can deliver.
MaxTickets == 4
\* Largest widget height (rows, header included) handed to render/keypress.
MaxHeight == 4
\* Largest offset / limit of a get_tickets call made from outside the widget.
MaxArg == 2

\* ------------------------------------------------------- class attributes
header_size == 1
footer_size == 0
page_speed == 1

\* Rows handed to the widget by the layout engine (0 rows is possible).
Heights == 0..MaxHeight
Keys == {"up", "down", "page up", "page down", " ", "enter", "f8"}

VARIABLES
    source,             \* the tickets client.tickets() will deliver, in order
    gen_pos,            \* how many of them the generator has delivered
    exhausted,          \* the generator has raised StopIteration
    next_after_stop,    \* next() was called on it after it raised
    ticket_cache,       \* self._ticket_cache
    offset,             \* self.offset
    index_highlighted,  \* self.index_highlighted
    rows,               \* visible_tickets of the last refresh_widgets
    marked,             \* local index_highlighted of the last refresh_widgets
    event,              \* the last handler that ran, with its arguments
    error,              \* exception that escaped the last handler
    call,               \* the last get_tickets call and its result
    before,             \* fields before the last scroll, and whether one of
                        \* its clamps changed a value
    round_trip          \* outcome of the last scroll when it reverses the
                        \* scroll before it and neither was clamped

vars == <<source, gen_pos, exhausted, next_after_stop, ticket_cache, offset,
          index_highlighted, rows, marked, event, error, call, before,
          round_trip>>

\* ------------------------------------------------------------ primitives
Min(a, b) == IF a < b THEN a ELSE b
Max(a, b) == IF a > b THEN a ELSE b

\* numpy.clip(a, a_min, a_max) == minimum(a_max, maximum(a, a_min))
clip(a, a_min, a_max) == Min(a_max, Max(a, a_min))

\* Python list slice lst[start:stop] (negative indices count from the end,
\* out-of-range indices are clamped, never an error).
SliceIndex(i, n) == IF i < 0 THEN Max(i + n, 0) ELSE Min(i, n)
PySlice(lst, start, stop) ==
    LET lo == SliceIndex(start, Len(lst))
        hi == SliceIndex(stop, Len(lst))
    IN  IF lo < hi THEN SubSeq(lst, lo + 1, hi) ELSE <<>>

\* Python list subscript lst[i] is valid iff -len <= i < len.
IndexOk(lst, i) == -Len(lst) <= i /\ i < Len(lst)

nonbody_overhead == header_size + footer_size

\* ---------------------------------------------------------- get_tickets
\* Faulty variant: the prefetch target is one page ahead instead of two.
PrefetchIndexOnePage(off, limit) == limit + off

\* prefetch_index = 2 * (limit) + offset
PrefetchIndex(off, limit) == 2 * limit + off

\* Faulty variant: a pulled ticket is put in front of the cache.
CachePrepend(cache, ticket) == <<ticket>> \o cache

\* self._ticket_cache.append(ticket)
CacheAppend(cache, ticket) == Append(cache, ticket)

\* The prefetch loop: pull from the generator until the cache is longer
\* than prefetch_index, or next() raises StopIteration (stop = TRUE).
RECURSIVE Prefetch(_, _, _)
Prefetch(cache, pos, prefetch_index) ==
    IF prefetch_index < Len(cache)
    THEN [cache |-> cache, pos |-> pos, stop |-> FALSE]
    ELSE IF pos < Len(source)
         THEN Prefetch(CacheAppend(cache, source[pos + 1]), pos + 1,
                       prefetch_index)
         ELSE [cache |-> cache, pos |-> pos, stop |-> TRUE]

\* Faulty variant: the slice ends at limit instead of offset + limit.
CacheSliceToLimit(cache, off, limit) == PySlice(cache, off, limit)

\* return self._ticket_cache[offset:offset + limit]
CacheSlice(cache, off, limit) == PySlice(cache, off, off + limit)

\* get_tickets(offset, limit) run on a cache and a generator position.
GetTickets(cache, pos, off, limit) ==
    LET p == Prefetch(cache, pos, PrefetchIndex(off, limit))
    IN  [cache |-> p.cache, pos |-> p.pos, stop |-> p.stop,
         result |-> CacheSlice(p.cache, off, limit)]

\* The record kept of a get_tickets call.
CallRecord(off, limit, pos, g, was_exhausted) ==
    [offset |-> off, limit |-> limit, result |-> g.result,
     pulled |-> g.pos - pos, after_exhaustion |-> was_exhausted]

\* ------------------------------------------------------- refresh_widgets
\* maxcol - self.nonbody_overhead
Capacity(maxcol) == maxcol - nonbody_overhead

\* The row index refresh_widgets marks as selected.
MarkedIndex(hi, maxcol, visible_tickets) ==
    clip(hi, 0, Min(Capacity(maxcol), Len(visible_tickets)) - 1)

\* -------------------------------------------------------------- keypress
\* page_jump = int(self.page_speed * (maxcol - self.nonbody_overhead))
PageJump(maxcol) == page_speed * Capacity(maxcol)

\* key_movements.get(key, 0)
KeyMovement(key, maxcol) ==
    CASE key = "up"        -> -1
      [] key = "down"      -> 1
      [] key = "page up"   -> 0 - PageJump(maxcol)
      [] key = "page down" -> PageJump(maxcol)
      [] OTHER             -> 0

\* key in key_actions
IsOpenKey(key) == key \in {" ", "enter"}

\* _action_open subscripts the cache at offset + index_highlighted.
OpenRaises(cache, off, hi) == ~IndexOk(cache, off + hi)

\* ---------------------------------------------------------------- scroll
\* Faulty variant: the highlight may reach the row after the last one.
CanMoveToCapacity(hi, movement, maxcol) ==
    clip(hi + movement, 0, Capacity(maxcol))

\* can_move_to = clip(index_highlighted + movement, 0, capacity - 1)
CanMoveTo(hi, movement, maxcol) ==
    clip(hi + movement, 0, Capacity(maxcol) - 1)

\* Faulty variant: the highlighted index is overwritten before the remaining
\* movement is computed, so nothing is taken off the movement.
RemainingAfterAssign(movement, can_move_to, hi) ==
    movement - (can_move_to - can_move_to)

\* Faulty variant: the old highlighted index is not taken off the consumed part.
RemainingFromZero(movement, can_move_to, hi) == movement - can_move_to

\* movement = movement - (can_move_to - self.index_highlighted)
Remaining(movement, can_move_to, hi) == movement - (can_move_to - hi)

\* Faulty variant: the offset is clamped one position short of the last
\* cached record.
NewOffsetBelowLast(off, movement, cache) ==
    clip(off + movement, 0, Len(cache) - 2)

\* self.offset = clip(self.offset + movement, 0, len(cache) - 1)
NewOffset(off, movement, cache) == clip(off + movement, 0, Len(cache) - 1)

\* A clamp of the move changed a value.
Clamped(off, hi, movement, maxcol, cache) ==
    LET target == CanMoveTo(hi, movement, maxcol)
        rest   == Remaining(movement, target, hi)
    IN  \/ target # hi + movement
        \/ NewOffset(off, rest, cache) # off + rest

\* The movement of the last event.
EventMovement ==
    IF event.kind = "keypress" THEN KeyMovement(event.key, event.height)
    ELSE 0

\* A scroll by `movement` at height maxcol undoes the scroll of the last
\* event: same height with room for a row, opposite movement, and no clamp
\* changed a value in either of the two.
Reverses(maxcol, movement) ==
    /\ event.kind \in {"render", "keypress"}
    /\ event.height = maxcol
    /\ Capacity(maxcol) > 0
    /\ movement = 0 - EventMovement
    /\ ~before.clamped
    /\ ~Clamped(offset, index_highlighted, movement, maxcol, ticket_cache)

\* scroll(size, movement): the move, then refresh_widgets(size).
Scroll(maxcol, movement) ==
    LET target == CanMoveTo(index_highlighted, movement, maxcol)
        rest   == Remaining(movement, target, index_highlighted)
        off    == NewOffset(offset, rest, ticket_cache)
    IN  \E g \in {GetTickets(ticket_cache, gen_pos, off, Capacity(maxcol))} :
        /\ index_highlighted' = target
        /\ offset' = off
        /\ ticket_cache' = g.cache
        /\ gen_pos' = g.pos
        /\ exhausted' = (exhausted \/ g.stop)
        /\ next_after_stop' = (next_after_stop \/ (exhausted /\ g.stop))
        /\ rows' = g.result
        /\ marked' = MarkedIndex(target, maxcol, g.result)
        /\ call' = CallRecord(off, Capacity(maxcol), gen_pos, g, exhausted)
        /\ before' = [offset |-> offset,
                       index_highlighted |-> index_highlighted,
                       cached_count |-> Len(ticket_cache),
                       clamped |-> Clamped(offset, index_highlighted,
                                           movement, maxcol, ticket_cache)]
        /\ round_trip' =
               IF Reverses(maxcol, movement)
               THEN IF off = before.offset
                       /\ target = before.index_highlighted
                    THEN "returned" ELSE "moved"
               ELSE "none"

\* ------------------------------------------------------------------ Init
\* State after TicketList.__init__: empty cache, offset 0, highlight 0,
\* then refresh_widgets((None, header_size + 1)).
Init ==
    /\ source \in {[i \in 1..n |-> i] : n \in 0..MaxTickets}
    /\ LET g == GetTickets(<<>>, 0, 0, Capacity(header_size + 1))
       IN  /\ ticket_cache = g.cache
           /\ gen_pos = g.pos
           /\ exhausted = g.stop
           /\ rows = g.result
           /\ marked = MarkedIndex(0, header_size + 1, g.result)
           /\ call = CallRecord(0, Capacity(header_size + 1), 0, g, FALSE)
    /\ next_after_stop = FALSE
    /\ offset = 0
    /\ index_highlighted = 0
    /\ event = [kind |-> "init", height |-> header_size + 1, key |-> ""]
    /\ error = "none"
    /\ before = [offset |-> 0, index_highlighted |-> 0, cached_count |-> 0,
                 clamped |-> FALSE]
    /\ round_trip = "none"

\* --------------------------------------------------------------- actions
\* render(size, focus): scroll(size, 0), then the urwid.Columns render.
Render(maxcol) ==
    /\ error = "none"
    /\ Scroll(maxcol, 0)
    /\ event' = [kind |-> "render", height |-> maxcol, key |-> ""]
    /\ UNCHANGED <<source, error>>

\* keypress(size, key) where _action_open is not called or succeeds.
Keypress(maxcol, key) ==
    /\ error = "none"
    /\ ~(IsOpenKey(key) /\ OpenRaises(ticket_cache, offset, index_highlighted))
    /\ Scroll(maxcol, KeyMovement(key, maxcol))
    /\ event' = [kind |-> "keypress", height |-> maxcol, key |-> key]
    /\ UNCHANGED <<source, error>>

\* keypress(size, key) where _action_open raises IndexError: the exception
\* leaves keypress before scroll is reached.
KeypressRaises(maxcol, key) ==
    /\ error = "none"
    /\ IsOpenKey(key)
    /\ OpenRaises(ticket_cache, offset, index_highlighted)
    /\ error' = "IndexError"
    /\ event' = [kind |-> "keypress", height |-> maxcol, key |-> key]
    /\ UNCHANGED <<source, gen_pos, exhausted, next_after_stop, ticket_cache,
                   offset, index_highlighted, rows, marked, call, before,
                   round_trip>>

\* get_tickets(offset, limit) called by a user of the widget.
Fetch(off, limit) ==
    /\ error = "none"
    /\ \E g \in {GetTickets(ticket_cache, gen_pos, off, limit)} :
           /\ ticket_cache' = g.cache
           /\ gen_pos' = g.pos
           /\ exhausted' = (exhausted \/ g.stop)
           /\ next_after_stop' = (next_after_stop \/ (exhausted /\ g.stop))
           /\ call' = CallRecord(off, limit, gen_pos, g, exhausted)
    /\ UNCHANGED <<source, offset, index_highlighted, rows, marked, event,
                   error, before, round_trip>>

Next ==
    \/ \E h \in Heights : Render(h)
    \/ \E h \in Heights, k \in Keys : Keypress(h, k)
    \/ \E h \in Heights, k \in Keys : KeypressRaises(h, k)
    \/ \E o \in 0..MaxArg, l \in 0..MaxArg : Fetch(o, l)

Spec == Init /\ [][Next]_vars

\* ------------------------------------------ the down key at a fixed height
\* keypress(size, 'down') where every press since construction arrives with
\* the same terminal height, and that height leaves at least one ticket row.
DownHeld(maxcol) ==
    /\ Capacity(maxcol) >= 1
    /\ event.kind = "init" \/ event.height = maxcol
    /\ Keypress(maxcol, "down")

\* Down presses at one height, with get_tickets calls by a user of the
\* widget in between.
NextDown ==
    \/ \E h \in Heights : DownHeld(h)
    \/ \E o \in 0..MaxArg, l \in 0..MaxArg : Fetch(o, l)

\* The down key keeps being pressed: a press that would change the widget
\* is not postponed forever.
SpecDown ==
    Init /\ [][NextDown]_vars /\ WF_vars(\E h \in Heights : DownHeld(h))

\* ================================================================ claims
IsPrefix(a, b) == Len(a) <= Len(b) /\ SubSeq(b, 1, Len(a)) = a

\* The last event was a render or key press (or the constructor's refresh).
Handled == event.kind \in {"init", "render", "keypress"}

\* C1: every event with visible capacity c = height - 1 > 0 leaves the
\* stored highlighted index in 0 .. c - 1.
C1_HighlightInRange ==
    (Handled /\ Capacity(event.height) > 0)
        => /\ 0 <= index_highlighted
           /\ index_highlighted <= Capacity(event.height) - 1

\* C2: the stored offset is never negative and never above
\* max(cached_count - 1, 0), cached_count being the cache length at the move.
C2_OffsetInRange ==
    /\ 0 <= offset
    /\ offset <= Max(before.cached_count - 1, 0)

\* C3: pressing space or enter never raises an error.
C3_OpenNeverRaises ==
    (event.kind = "keypress" /\ IsOpenKey(event.key)) => error = "none"

\* The slice of the source a call for (off, limit) is due once the whole
\* source of N records is cached.
ExpectedSlice(off, limit) ==
    IF off >= Len(source) THEN <<>>
    ELSE [i \in 1..Min(limit, Len(source) - off) |-> source[off + i]]

\* C4: a get_tickets(offset, limit) call with offset >= 0 and limit >= 0 made
\* after the source signalled exhaustion returns the empty slice when
\* offset >= N and the min(limit, N - offset) records from source position
\* offset on, in source order, when offset < N.
C4_ShortReadAtExhaustion ==
    (call.after_exhaustion /\ call.offset >= 0 /\ call.limit >= 0)
        => call.result = ExpectedSlice(call.offset, call.limit)

\* A call after exhaustion that is cut short by the end of the source.
C4_Witness ==
    /\ call.after_exhaustion
    /\ call.offset > 0
    /\ call.offset < Len(source)
    /\ call.limit > Len(source) - call.offset
    /\ Len(call.result) = Len(source) - call.offset

\* C5: after every get_tickets(offset, limit) call the cache holds at least
\* min(offset + 2 * limit, total_available) records.
C5_PrefetchBound ==
    Len(ticket_cache) >= Min(call.offset + 2 * call.limit, Len(source))

\* A call that pulled records to reach a prefetch target the source covers.
C5_Witness ==
    /\ call.limit >= 2
    /\ call.pulled > 0
    /\ call.offset + 2 * call.limit <= Len(source)
    /\ Len(ticket_cache) >= call.offset + 2 * call.limit

\* The result a get_tickets(off, limit) call returns when made in a state
\* with the given cache and generator position.
ResultOf(cache, pos, off, limit) == GetTickets(cache, pos, off, limit).result

\* C6: the cache is always a gap-free prefix of the source in delivery
\* order, no step shrinks it or changes a position already pulled, and a
\* get_tickets(offset, limit) call repeated after any step returns the
\* records of the earlier call at every position both results contain
\* (the earlier result is a prefix of the later one, for every offset >= 0;
\* only a step that changes the cache can change what a call returns).
C6_CachePrefixStable ==
    [][ /\ IsPrefix(ticket_cache, ticket_cache')
        /\ IsPrefix(ticket_cache', source)
        /\ gen_pos' = Len(ticket_cache')
        /\ (ticket_cache' # ticket_cache)
              => \A o \in 0..MaxArg, l \in -1..MaxArg :
                    IsPrefix(ResultOf(ticket_cache, gen_pos, o, l),
                             ResultOf(ticket_cache', gen_pos', o, l))
        /\ (call'.offset = call.offset /\ call'.limit = call.limit)
              => \A i \in 1..Min(Len(call.result), Len(call'.result)) :
                    call'.result[i] = call.result[i]
      ]_vars

\* A re-read served from a cache that grew past the constructor's prefetch.
C6_Witness ==
    /\ Len(ticket_cache) > 3
    /\ call.pulled = 0
    /\ call.offset > 0
    /\ Len(call.result) >= 2

\* C7: once the source has raised StopIteration, next() is never called on
\* it again.
C7_NoPullAfterExhaustion == ~next_after_stop

\* C8: a render or key press with visible capacity <= 0 produces zero
\* visible rows.
C8_DegenerateNoRows ==
    (Handled /\ error = "none" /\ Capacity(event.height) <= 0) => rows = <<>>

\* C9: the stored highlighted index is never negative.
C9_HighlightNonNegative == index_highlighted >= 0

\* C10: a move by d followed, at the same height with capacity > 0, by a move
\* by -d, no clamp changing a value in either move, returns offset and
\* highlighted index to the values they had before the first move.
C10_MoveAndBack ==
    [][ error' = "none"
        /\ Reverses(event'.height,
                    IF event'.kind = "keypress"
                    THEN KeyMovement(event'.key, event'.height) ELSE 0)
        => /\ offset' = before.offset
           /\ index_highlighted' = before.index_highlighted
      ]_vars

\* A non-zero move that was undone by the opposite move.
C10_Witness ==
    /\ round_trip = "returned"
    /\ EventMovement # 0
    /\ offset > 0

\* The last event was a completed press of `key` at a height with room for
\* at least one row.
Pressed(key) ==
    /\ event.kind = "keypress"
    /\ event.key = key
    /\ error = "none"
    /\ Capacity(event.height) >= 1

\* The rows of a full window at the current offset, and the marker on the
\* stored highlighted index.
ShowsWindow ==
    /\ rows = [i \in 1..Capacity(event.height) |-> source[offset + i]]
    /\ marked = index_highlighted

\* C11: at capacity c >= 1, over a source long enough to fill the window
\* after the key, a down key pressed with the highlight in 0 .. c - 2 moves
\* only the highlight, pressed with the highlight at c - 1 it keeps the
\* highlight and adds exactly 1 to offset, and a page down key from (0, 0)
\* yields (1, c - 1); after each the visible rows are the source positions
\* offset .. offset + c - 1 and the row at the highlighted index is marked.
C11_DownScrollsAtEdge ==
    LET c == Capacity(event.height)
    IN  /\ ( /\ Pressed("down")
             /\ before.offset >= 0
             /\ before.index_highlighted \in 0..(c - 2)
             /\ Len(source) >= before.offset + c )
           => /\ index_highlighted = before.index_highlighted + 1
              /\ offset = before.offset
              /\ ShowsWindow
        /\ ( /\ Pressed("down")
             /\ before.offset >= 0
             /\ before.index_highlighted = c - 1
             /\ Len(source) >= before.offset + 1 + c )
           => /\ index_highlighted = c - 1
              /\ offset = before.offset + 1
              /\ ShowsWindow
        /\ ( /\ Pressed("page down")
             /\ before.offset = 0
             /\ before.index_highlighted = 0
             /\ Len(source) >= 1 + c )
           => /\ index_highlighted = c - 1
              /\ offset = 1
              /\ ShowsWindow

\* A down key at the bottom row of a window of several rows scrolled the
\* window by one.
C11_Witness ==
    /\ Pressed("down")
    /\ Capacity(event.height) >= 2
    /\ before.index_highlighted = Capacity(event.height) - 1
    /\ before.offset = 0
    /\ offset = 1
    /\ index_highlighted = Capacity(event.height) - 1
    /\ Len(rows) = Capacity(event.height)
    /\ rows[1] = source[2]

\* C12: whenever the cache is non-empty, the stored highlighted index lies in
\* 0 .. min(viewport_height, cached_count) - 1 (checked after every completed
\* event at a height with room for at least one row).
C12_HighlightWithinCache ==
    ( /\ Handled
      /\ error = "none"
      /\ Capacity(event.height) >= 1
      /\ Len(ticket_cache) > 0 )
        => /\ 0 <= index_highlighted
           /\ index_highlighted <= Min(event.height, Len(ticket_cache)) - 1

\* The indices of the rows the last refresh marked as selected.
MarkedRows == {i \in 0..(Len(rows) - 1) : i = marked}

\* C13: whenever a refresh produces at least one visible row, exactly one
\* row is marked selected, the one at
\* clip(highlighted_index, 0, min(capacity, returned_count) - 1).
C13_OneRowMarked ==
    (Handled /\ error = "none" /\ rows # <<>>)
        => /\ Cardinality(MarkedRows) = 1
           /\ marked = clip(index_highlighted, 0,
                            Min(Capacity(event.height), Len(rows)) - 1)

\* The last event ran scroll to completion at a height with room for a row.
Scrolled ==
    /\ event.kind \in {"render", "keypress"}
    /\ error = "none"
    /\ Capacity(event.height) >= 1

\* The offset the last scroll aimed at before its clamp: the old offset plus
\* the part of the movement the highlight did not consume.
OffsetAimed ==
    before.offset
        + (EventMovement - (index_highlighted - before.index_highlighted))

\* C14: for every event with capacity >= 1 and movement d whose offset clamp
\* to 0 .. cached_count - 1 does not change the value, the absolute
\* highlighted position offset + highlighted_index moves by exactly d.
C14_AbsolutePositionMoves ==
    ( /\ Scrolled
      /\ 0 <= OffsetAimed
      /\ OffsetAimed <= before.cached_count - 1 )
        => offset + index_highlighted
               = before.offset + before.index_highlighted + EventMovement

\* A render that shrank the viewport below the highlight moved the overflow
\* into the offset.
C14_Witness ==
    /\ Scrolled
    /\ event.kind = "render"
    /\ index_highlighted < before.index_highlighted
    /\ index_highlighted = Capacity(event.height) - 1
    /\ offset > before.offset
    /\ offset + index_highlighted = before.offset + before.index_highlighted

\* What scroll(size, movement) leaves in offset and index_highlighted and
\* shows as rows when run on the given fields.
ScrollOutcome(cache, pos, off, hi, maxcol, movement) ==
    LET target == CanMoveTo(hi, movement, maxcol)
        rest   == Remaining(movement, target, hi)
        new    == NewOffset(off, rest, cache)
    IN  [offset |-> new, index_highlighted |-> target,
         rows |-> GetTickets(cache, pos, new, Capacity(maxcol)).result]

\* The cache and generator position the constructor leaves.
Constructed == GetTickets(<<>>, 0, 0, Capacity(header_size + 1))

\* C15: two event histories that reach the same (offset, highlighted_index)
\* over the same source give the same offset, highlighted index and visible
\* rows for the same next event.  Stated for the empty history against any
\* history that is back at (0, 0): every event gives what it gives on the
\* freshly constructed widget, whatever the cache holds by now.
C15_NoHiddenHistory ==
    (error = "none" /\ offset = 0 /\ index_highlighted = 0)
        => \A h \in Heights, k \in Keys :
              ScrollOutcome(ticket_cache, gen_pos, 0, 0, h, KeyMovement(k, h))
                  = ScrollOutcome(Constructed.cache, Constructed.pos, 0, 0, h,
                                  KeyMovement(k, h))

\* The last get_tickets call is the one made by the refresh of the last event.
CallOfRefresh ==
    /\ Handled
    /\ error = "none"
    /\ call.offset = offset
    /\ call.limit = Capacity(event.height)
    /\ call.result = rows

\* C16: every refresh at capacity c >= 1, the constructor's (c = 1)
\* included, pulls at most 2 * c records from the source.
C16_PullsAtMostTwoPages ==
    (CallOfRefresh /\ Capacity(event.height) >= 1)
        => call.pulled <= 2 * Capacity(event.height)

\* The keys keypress maps to a movement.
MovementKeys == {"up", "down", "page up", "page down"}

\* C17: a key press with a key other than up, down, page up, page down has
\* movement 0, and when the stored highlighted index is already within
\* 0 .. capacity - 1 for the height of the key press it changes neither
\* offset nor highlighted index.
C17_OtherKeysDoNotScroll ==
    ( /\ event.kind = "keypress"
      /\ event.key \notin MovementKeys
      /\ error = "none"
      /\ 0 <= before.index_highlighted
      /\ before.index_highlighted <= Capacity(event.height) - 1 )
        => /\ EventMovement = 0
           /\ offset = before.offset
           /\ index_highlighted = before.index_highlighted

\* C18: whenever the last refresh produced at least one row, the cache
\* position space / enter resolves, offset + stored highlighted index, is the
\* position displayed as selected, offset + marked row index.
C18_OpenedIsMarked ==
    (Handled /\ error = "none" /\ rows # <<>>)
        => offset + index_highlighted = offset + marked

\* C19: under SpecDown (a source of N >= 1 records, one height with capacity
\* >= 1, the down key pressed again and again) the widget eventually has the
\* whole source cached and offset = N - 1, and from then on offset, stored
\* highlighted index and cache keep their values.
C19_DownReachesLastRecord ==
    <>[](Len(source) >= 1
            => /\ ticket_cache = source
               /\ offset = Len(source) - 1
               /\ index_highlighted = Capacity(event.height) - 1)

\* A down press at the end of a source longer than the constructor's
\* prefetch: the press found the widget at the last record and left it there.
C19_Witness ==
    /\ Pressed("down")
    /\ Len(source) >= 4
    /\ ticket_cache = source
    /\ before.cached_count = Len(source)
    /\ before.offset = Len(source) - 1
    /\ offset = Len(source) - 1
    /\ before.index_highlighted = Capacity(event.height) - 1
    /\ index_highlighted = Capacity(event.height) - 1

====
